---- MODULE Spec2Model ----
(***************************************************************************)
(* Model of the Appear class of lib/main.ts: a lifecycle wrapper around    *)
(* the host's IntersectionObserver.  The tracker's fields (state,          *)
(* observer), its constructor parameters, the host's queue of undelivered  *)
(* entry batches and the DOMContentLoaded signal are the state; pause(),   *)
(* resume(), destroy(), the DOMContentLoaded listener and the observer     *)
(* callback are the actions.                                               *)
(***************************************************************************)
EXTENDS Integers, Sequences, FiniteSets, TLC

\* ---------------------------------------------------------------- bounds
MaxInFlight == 2   \* entries the host has queued but not yet delivered
MaxFidelity == 6   \* largest thresholdSize argument tried

\* ------------------------------------------------------- program constants
thresholdSize == 20        \* constructor default
thresholdTrigger == 85     \* constructor default 0.85, in hundredths

\* ------------------------------------------------------------ value sets
Elems == {"e1", "e2"}                 \* DOM elements
Coll == "HTMLCollection"              \* a collection object, not an Element
IntersectingRatios == {80, 85}        \* hundredths: one step below / at trigger
ProducerResults == {<<>>, <<"e1">>, <<"e2">>, <<"e1", "e2">>}

\* which of the optional constructor parameters init/appear/disappear/done
\* are functions: all, none, and two mixed choices
FnsArgs ==
    { [init |-> TRUE,  appear |-> TRUE,  disappear |-> TRUE,  done |-> TRUE],
      [init |-> FALSE, appear |-> FALSE, disappear |-> FALSE, done |-> FALSE],
      [init |-> TRUE,  appear |-> FALSE, disappear |-> TRUE,  done |-> FALSE],
      [init |-> FALSE, appear |-> TRUE,  disappear |-> FALSE, done |-> TRUE] }

AppearState == {"idle", "observing", "paused", "destroyed"}

\* the `elements` constructor argument: a producer function, one Element,
\* an Element[] or an HTMLCollection
ElementsArgs ==
    { [kind |-> "function",   els |-> <<>>],
      [kind |-> "element",    els |-> <<"e1">>],
      [kind |-> "array",      els |-> <<"e1", "e2">>],
      [kind |-> "collection", els |-> <<"e1", "e2">>] }

\* values of `elements` that are falsy in JavaScript
FalsyArgs ==
    { [kind |-> "undefined", els |-> <<>>],
      [kind |-> "null",      els |-> <<>>] }

VARIABLES
    state,      \* this.state
    observer,   \* this.observer: 0 is undefined, n > 0 the n-th observer made
    watched,    \* observation targets registered on this.observer
    created,    \* number of IntersectionObserver objects constructed
    loaded,     \* DOMContentLoaded has fired
    queue,      \* batches queued by the host, not yet delivered
    elements,   \* constructor parameter `elements`
    reappear,   \* constructor parameter `reappear`
    fns,        \* which of init/appear/disappear/done are functions
    size,       \* constructor parameter `thresholdSize`
    threshold,  \* options.threshold of the last observer constructed
    nInit,      \* invocations of init so far
    appeared,   \* elements appear has been invoked for
    consumed,   \* elements whose appear ran since they were last observed
    calls,      \* user functions invoked by the last operation, in order
    last        \* the last operation and the fields it started from

vars == <<state, observer, watched, created, loaded, queue, elements,
          reappear, fns, size, threshold, nInit, appeared, consumed, calls,
          last>>

Range(s) == {s[i] : i \in 1..Len(s)}

Entries(W) ==
    {[target |-> e, isIntersecting |-> TRUE, intersectionRatio |-> r] :
        e \in W, r \in IntersectingRatios}
    \cup {[target |-> e, isIntersecting |-> FALSE, intersectionRatio |-> 0] :
        e \in W}

\* the batches of at most n entries about the targets W
Batches(W, n) == UNION {[1..k -> Entries(W)] : k \in 1..n}

RECURSIVE InFlight(_)
InFlight(q) == IF q = <<>> THEN 0 ELSE Len(Head(q)) + InFlight(Tail(q))

\* the tracker's mutable fields as one record, threaded through the methods
This == [state |-> state, observer |-> observer, watched |-> watched,
         created |-> created, nInit |-> nInit, calls |-> <<>>,
         fns |-> fns, threshold |-> threshold]

\* a ratio i / n, and the number 0
Ratio(i, n) == [num |-> i, den |-> n]
Zero == [num |-> 0, den |-> 1]

\* the for loop of buildThreshold, from index i on
RECURSIVE buildThresholdLoop(_, _, _)
buildThresholdLoop(thresholds, i, n) ==
    IF i <= n
    THEN buildThresholdLoop(Append(thresholds, Ratio(i, n)), i + 1, n)
    ELSE thresholds

buildThresholdNoZero(n) == buildThresholdLoop(<<>>, 0, n)

buildThreshold(n) == Append(buildThresholdLoop(<<>>, 0, n), Zero)

isActive(t) == t.state # "paused" /\ t.state # "destroyed"

\* observer?.observe(target) for each target; observe() of a non-Element
\* throws a TypeError, which leaves the loop and the method
handleTracking(t, produced) ==
    LET els == IF elements.kind = "function" THEN produced
               ELSE IF elements.kind # "array"
                    THEN (IF elements.kind = "collection" THEN <<Coll>>
                          ELSE elements.els)
                    ELSE <<>>
        t1 == IF elements.kind = "function"
              THEN [t EXCEPT !.calls = Append(@, <<"elements">>)] ELSE t
    IN  IF t1.observer # 0 /\ Coll \in Range(els)
        THEN t1
        ELSE [t1 EXCEPT !.watched = IF t1.observer # 0
                                    THEN @ \cup Range(els) ELSE @,
                        !.state = "observing"]

onLoadSkipsInit(t, produced) ==
    LET t2 == [t EXCEPT !.threshold = buildThreshold(size),
                        !.observer = t.created + 1,
                        !.created = @ + 1,
                        !.watched = {}]
    IN  handleTracking(t2, produced)

onLoad(t, produced) ==
    LET t1 == IF t.fns.init
              THEN [t EXCEPT !.calls = Append(@, <<"init">>), !.nInit = @ + 1]
              ELSE t
        t2 == [t1 EXCEPT !.threshold = buildThreshold(size),
                         !.observer = t1.created + 1,
                         !.created = @ + 1,
                         !.watched = {}]
    IN  handleTracking(t2, produced)

pauseResetsToIdle(t) ==
    IF isActive(t) THEN t
    ELSE [t EXCEPT !.state = "idle", !.watched = {}]

pause(t) ==
    IF isActive(t) THEN t
    ELSE [t EXCEPT !.state = "paused", !.watched = {}]

resume(t, produced) ==
    IF ~isActive(t) THEN t
    ELSE IF t.state = "destroyed" THEN onLoad(t, produced)
    ELSE handleTracking(t, produced)

destroyKeepsObserver(t) ==
    LET t1 == [t EXCEPT !.watched = {}, !.state = "destroyed"]
    IN  IF t.fns.done THEN [t1 EXCEPT !.calls = Append(@, <<"done">>)] ELSE t1

destroy(t) ==
    LET t1 == [t EXCEPT !.watched = {}, !.observer = 0,
                        !.state = "destroyed"]
    IN  IF t.fns.done THEN [t1 EXCEPT !.calls = Append(@, <<"done">>)] ELSE t1

\* the body of the callback's loop: one entry
handleEntryKeepsTarget(t, entry) ==
    IF entry.isIntersecting
    THEN IF entry.intersectionRatio >= thresholdTrigger
         THEN IF t.fns.appear
              THEN [t EXCEPT !.calls = Append(@, <<"appear", entry.target>>)]
              ELSE t
         ELSE t
    ELSE IF t.fns.disappear
         THEN [t EXCEPT !.calls = Append(@, <<"disappear", entry.target>>)]
         ELSE t

\* `>` where the code has `>=`
handleEntryStrict(t, entry) ==
    IF entry.isIntersecting
    THEN IF entry.intersectionRatio > thresholdTrigger
         THEN LET a == IF t.fns.appear
                       THEN [t EXCEPT !.calls =
                               Append(@, <<"appear", entry.target>>)]
                       ELSE t
              IN  IF ~reappear /\ a.observer # 0
                  THEN [a EXCEPT !.watched = @ \ {entry.target}]
                  ELSE a
         ELSE t
    ELSE IF t.fns.disappear
         THEN [t EXCEPT !.calls = Append(@, <<"disappear", entry.target>>)]
         ELSE t

\* a callback already made in this batch is not made again
handleEntryOnce(t, entry) ==
    LET once(u, c) == IF c \in Range(u.calls) THEN u
                      ELSE [u EXCEPT !.calls = Append(@, c)]
    IN  IF entry.isIntersecting
        THEN IF entry.intersectionRatio >= thresholdTrigger
             THEN LET a == IF t.fns.appear
                           THEN once(t, <<"appear", entry.target>>)
                           ELSE t
                  IN  IF ~reappear /\ a.observer # 0
                      THEN [a EXCEPT !.watched = @ \ {entry.target}]
                      ELSE a
             ELSE t
        ELSE IF t.fns.disappear
             THEN once(t, <<"disappear", entry.target>>)
             ELSE t

\* disconnect() where the code has unobserve(entry.target)
handleEntryDisconnects(t, entry) ==
    IF entry.isIntersecting
    THEN IF entry.intersectionRatio >= thresholdTrigger
         THEN LET a == IF t.fns.appear
                       THEN [t EXCEPT !.calls =
                               Append(@, <<"appear", entry.target>>)]
                       ELSE t
              IN  IF ~reappear /\ a.observer # 0
                  THEN [a EXCEPT !.watched = {}]
                  ELSE a
         ELSE t
    ELSE IF t.fns.disappear
         THEN [t EXCEPT !.calls = Append(@, <<"disappear", entry.target>>)]
         ELSE t

\* unobserve() moved inside the `typeof this.appear === 'function'` test
handleEntryUnobservesInAppear(t, entry) ==
    IF entry.isIntersecting
    THEN IF entry.intersectionRatio >= thresholdTrigger
         THEN IF t.fns.appear
              THEN LET a == [t EXCEPT !.calls =
                               Append(@, <<"appear", entry.target>>)]
                   IN  IF ~reappear /\ a.observer # 0
                       THEN [a EXCEPT !.watched = @ \ {entry.target}]
                       ELSE a
              ELSE t
         ELSE t
    ELSE IF t.fns.disappear
         THEN [t EXCEPT !.calls = Append(@, <<"disappear", entry.target>>)]
         ELSE t

handleEntry(t, entry) ==
    IF entry.isIntersecting
    THEN IF entry.intersectionRatio >= thresholdTrigger
         THEN LET a == IF t.fns.appear
                       THEN [t EXCEPT !.calls =
                               Append(@, <<"appear", entry.target>>)]
                       ELSE t
              IN  IF ~reappear /\ a.observer # 0
                  THEN [a EXCEPT !.watched = @ \ {entry.target}]
                  ELSE a
         ELSE t
    ELSE IF t.fns.disappear
         THEN [t EXCEPT !.calls = Append(@, <<"disappear", entry.target>>)]
         ELSE t

RECURSIVE interactionObserverCallback(_, _)
interactionObserverCallback(t, entries) ==
    IF entries = <<>> THEN t
    ELSE interactionObserverCallback(handleEntry(t, Head(entries)),
                                     Tail(entries))

Appeared(cs) == {e \in Elems : <<"appear", e>> \in Range(cs)}

Snapshot(op) ==
    [op |-> op, state |-> state, observer |-> observer, watched |-> watched]

\* install the fields a method left behind
Install(t, op) ==
    /\ state' = t.state
    /\ observer' = t.observer
    /\ watched' = t.watched
    /\ created' = t.created
    /\ nInit' = t.nInit
    /\ threshold' = t.threshold
    /\ calls' = t.calls
    /\ appeared' = appeared \cup Appeared(t.calls)
    /\ consumed' = (consumed \ (t.watched \ watched)) \cup Appeared(t.calls)
    /\ last' = Snapshot(op)

\* the truthiness test of `if (!elements)`
Truthy(arg) == arg.kind \notin {"undefined", "null"}

\* the constructor: throws on falsy elements, otherwise the new object has
\* the field initialisers' values
constructNoCheck(arg) ==
    [threw |-> FALSE, state |-> "idle", observer |-> 0]

construct(arg) ==
    IF ~Truthy(arg) THEN [threw |-> TRUE, state |-> "none", observer |-> 0]
    ELSE [threw |-> FALSE, state |-> "idle", observer |-> 0]

\* the fields with the arguments drawn from E and S; st and op say whether
\* the constructor has run yet
Fields(E, S, st, op) ==
    /\ state = st
    /\ observer = 0
    /\ watched = {}
    /\ created = 0
    /\ loaded = FALSE
    /\ queue = <<>>
    /\ elements \in E
    /\ reappear \in BOOLEAN
    /\ fns \in FnsArgs
    /\ size \in S
    /\ threshold = <<>>
    /\ nInit = 0
    /\ appeared = {}
    /\ consumed = {}
    /\ calls = <<>>
    /\ last = [op |-> op, state |-> st, observer |-> 0, watched |-> {}]

Init == Fields(ElementsArgs, {thresholdSize}, "idle", "new")

\* the DOMContentLoaded listener registered by the constructor
Ready ==
    /\ ~loaded
    /\ loaded' = TRUE
    /\ \E produced \in ProducerResults :
          Install(onLoad(This, produced), "ready")
    /\ UNCHANGED <<queue, elements, reappear, fns, size>>

Pause ==
    /\ Install(pause(This), "pause")
    /\ UNCHANGED <<loaded, queue, elements, reappear, fns, size>>

Resume ==
    /\ \E produced \in ProducerResults :
          Install(resume(This, produced), "resume")
    /\ UNCHANGED <<loaded, queue, elements, reappear, fns, size>>

Destroy ==
    /\ Install(destroy(This), "destroy")
    /\ UNCHANGED <<loaded, queue, elements, reappear, fns, size>>

\* the host notices intersection changes of observed targets and queues a
\* batch of entries for the observer's callback
HostQueue ==
    /\ observer # 0
    /\ watched # {}
    /\ InFlight(queue) < MaxInFlight
    /\ \E b \in Batches(watched, MaxInFlight - InFlight(queue)) :
          queue' = Append(queue, b)
    /\ UNCHANGED <<state, observer, watched, created, loaded, elements,
                   reappear, fns, size, threshold, nInit, appeared, consumed,
                   calls, last>>

\* the host runs the observer's callback on the oldest queued batch
Deliver ==
    /\ queue # <<>>
    /\ Install(interactionObserverCallback(This, Head(queue)),
               "deliver")
    /\ queue' = Tail(queue)
    /\ UNCHANGED <<loaded, elements, reappear, fns, size>>

Next == Ready \/ Pause \/ Resume \/ Destroy \/ HostQueue \/ Deliver

Spec == Init /\ [][Next]_vars

\* activation with every thresholdSize argument up to MaxFidelity
InitThreshold == Fields(ElementsArgs, 1..MaxFidelity, "idle", "new")

NextThreshold == Ready \/ Destroy

SpecThreshold == InitThreshold /\ [][NextThreshold]_vars

\* `new Appear(elements, ...)`: the constructor runs on the chosen argument
Construct ==
    /\ last.op = "none"
    /\ LET r == construct(elements)
       IN  /\ state' = r.state
           /\ observer' = r.observer
           /\ last' = [last EXCEPT !.op = IF r.threw THEN "throw" ELSE "new",
                                   !.state = r.state]
    /\ UNCHANGED <<watched, created, loaded, queue, elements, reappear, fns,
                   size, threshold, nInit, appeared, consumed, calls>>

InitNew ==
    Fields(ElementsArgs \cup FalsyArgs, {thresholdSize}, "none", "none")

NextNew == Construct \/ (last.op \notin {"none", "throw"} /\ Next)

SpecNew == InitNew /\ [][NextNew]_vars

TypeOK ==
    /\ state \in AppearState
    /\ observer \in 0..created
    /\ watched \subseteq Elems

\* ------------------------------------------------------------- properties
Targets(batch) == {batch[i].target : i \in 1..Len(batch)}

EventCalls(cs) ==
    {i \in 1..Len(cs) : cs[i][1] \in {"appear", "disappear"}}

\* a step in which the host delivers the oldest queued batch
DeliverStep == queue # <<>> /\ queue' = Tail(queue) /\ last'.op = "deliver"

\* C1: pause() called while observing leaves the state paused and no element
\* watched.
C1_PauseFromObserving ==
    (last.op = "pause" /\ last.state = "observing")
        => (state = "paused" /\ watched = {})

\* C2: resume() called while paused leaves the state observing, keeps the
\* same observer and does not invoke init.
C2_ResumeFromPaused ==
    (last.op = "resume" /\ last.state = "paused")
        => /\ state = "observing"
           /\ observer = last.observer
           /\ <<"init">> \notin Range(calls)

\* C3: resume() called while destroyed invokes init (when supplied), makes a
\* new observer and leaves the state observing.
C3_ResumeFromDestroyed ==
    (last.op = "resume" /\ last.state = "destroyed")
        => /\ state = "observing"
           /\ observer # 0
           /\ observer # last.observer
           /\ (fns.init => <<"init">> \in Range(calls))

\* C4: destroy() called while observing or paused leaves the state
\* destroyed and the observer undefined, and invokes done exactly once (not
\* at all when no done function was supplied).
C4_DestroyFromActive ==
    (last.op = "destroy" /\ last.state \in {"observing", "paused"})
        => /\ state = "destroyed"
           /\ observer = 0
           /\ watched = {}
           /\ calls = (IF fns.done THEN << <<"done">> >> ELSE <<>>)

C4_Witness ==
    /\ last.op = "destroy"
    /\ last.state = "observing"
    /\ last.observer # 0
    /\ last.watched # {}
    /\ state = "destroyed"
    /\ calls = << <<"done">> >>

\* C5: pause() or destroy() called while destroyed changes nothing: the
\* state stays destroyed, the observer stays undefined, nothing is invoked.
C5_NoOpWhenDestroyed ==
    (last.op \in {"pause", "destroy"} /\ last.state = "destroyed")
        => /\ state = "destroyed"
           /\ observer = 0
           /\ calls = <<>>

\* C6: a batch delivered while the state is not observing invokes neither
\* appear nor disappear and unwatches nothing.
C6_BatchDroppedWhenInactive ==
    (last.op = "deliver" /\ last.state # "observing")
        => /\ calls = <<>>
           /\ watched = last.watched

\* C7: the destroyed state is left only by resume(), and only to observing.
C7_DestroyedLeftOnlyByResume ==
    (last.state = "destroyed" /\ state # "destroyed")
        => (last.op = "resume" /\ state = "observing")

\* C8: the state goes from idle to observing only when the ready signal
\* fires, after the signal init has run exactly once, and appear or
\* disappear never runs before init.
C8_ReadyEntersObservingOnce ==
    /\ (last.state = "idle" /\ state = "observing") => last.op = "ready"
    /\ (loaded /\ fns.init) => nInit = 1
    /\ (fns.init /\ EventCalls(calls) # {}) => nInit >= 1

\* C9: resume() called while observing changes nothing: state, observer
\* and watched elements stay, the producer is not invoked, nothing else is.
C9_ResumeWhileObserving ==
    (last.op = "resume" /\ last.state = "observing")
        => /\ state = "observing"
           /\ observer = last.observer
           /\ watched = last.watched
           /\ calls = <<>>

C11_ResolvedElementsWatched ==
    (last.op = "ready" /\ observer # 0)
        => IF elements.kind = "function"
           THEN <<"elements">> \in Range(calls)
           ELSE watched = Range(elements.els)

\* the entries of a batch that qualify as an appearance of e, and as a
\* disappearance of e
AppearsIn(b, e) ==
    {i \in 1..Len(b) : /\ b[i].target = e
                       /\ b[i].isIntersecting
                       /\ b[i].intersectionRatio >= thresholdTrigger}

DisappearsIn(b, e) ==
    {i \in 1..Len(b) : b[i].target = e /\ ~b[i].isIntersecting}

C13_ConstructorChecksElements ==
    last.op # "none"
        => IF elements \in FalsyArgs
           THEN last.op = "throw" /\ state = "none"
           ELSE /\ last.op # "throw"
                /\ last.op = "new"
                     => (state = "idle" /\ observer = 0 /\ created = 0)

C13_Witness ==
    /\ last.op = "throw"
    /\ elements.kind = "undefined"
    /\ state = "none"

\* C14: the observer is present exactly when the state is observing.
C14_ObserverIffObserving == (observer # 0) <=> (state = "observing")

\* the callbacks the entries of a batch call for, in the batch's order
RECURSIVE CallsOf(_)
CallsOf(b) ==
    IF b = <<>> THEN <<>>
    ELSE LET en == Head(b)
             c == IF en.isIntersecting
                  THEN IF en.intersectionRatio >= thresholdTrigger /\ fns.appear
                       THEN << <<"appear", en.target>> >> ELSE <<>>
                  ELSE IF fns.disappear
                       THEN << <<"disappear", en.target>> >> ELSE <<>>
         IN  c \o CallsOf(Tail(b))

\* C15: a delivered batch invokes the callbacks in the order of its
\* entries, once per qualifying entry, also when two entries name the same
\* element.
C15_CallsInBatchOrder ==
    [][DeliverStep => calls' = CallsOf(Head(queue))]_vars

C15_Witness ==
    /\ last.op = "deliver"
    /\ calls = << <<"appear", "e1">>, <<"appear", "e1">> >>

\* the elements some entry of the batch reports as appeared
AppearTargets(b) == {e \in Elems : AppearsIn(b, e) # {}}

\* C16: with reappear false a delivered batch unwatches exactly the
\* elements it reports as appeared, with reappear true it unwatches none;
\* the state and the observer stay as they were.
C16_UnwatchesOnlyAppeared ==
    [][DeliverStep
          => /\ state' = state
             /\ observer' = observer
             /\ created' = created
             /\ watched' = IF reappear THEN watched
                           ELSE watched \ AppearTargets(Head(queue))]_vars

C16_Witness ==
    /\ ~reappear
    /\ last.op = "deliver"
    /\ last.watched = {"e1", "e2"}
    /\ watched = {"e2"}
    /\ state = "observing"
    /\ observer = last.observer

\* r is the ratio i / n
IsRatio(r, i, n) == r.num * n = i * r.den

NoFns == [init |-> FALSE, appear |-> FALSE, disappear |-> FALSE,
          done |-> FALSE]

Lifecycle(t) == <<t.state, t.observer, t.watched, t.created>>

\* the results a call of the producer can have in this state
Produced == IF elements.kind = "function" THEN ProducerResults ELSE {<<>>}

\* C18: in every reachable state every event has the same effect on the
\* state, the observer and the watched elements as it has on the tracker
\* with no callbacks at all, so two trackers differing only in their
\* callbacks stay equal in these; with reappear false an appeared element
\* is unwatched also when appear is absent.
C18_CallbacksDoNotSteer ==
    LET u == [This EXCEPT !.fns = NoFns]
    IN  /\ \A produced \in Produced :
             /\ ~loaded => Lifecycle(onLoad(This, produced))
                              = Lifecycle(onLoad(u, produced))
             /\ Lifecycle(resume(This, produced))
                  = Lifecycle(resume(u, produced))
        /\ Lifecycle(pause(This)) = Lifecycle(pause(u))
        /\ Lifecycle(destroy(This)) = Lifecycle(destroy(u))
        /\ queue # <<>>
             => Lifecycle(interactionObserverCallback(This, Head(queue)))
                  = Lifecycle(interactionObserverCallback(u, Head(queue)))

C18_Witness ==
    /\ ~reappear
    /\ ~fns.appear
    /\ last.op = "deliver"
    /\ last.watched = {"e1"}
    /\ watched = {}
    /\ observer # 0
    /\ calls = <<>>

\* C19: init runs exactly in the steps that construct an observer, before
\* the observer is made: the invocations of init (when init is a function)
\* equal the observers constructed.
C19_InitPairedWithObserver ==
    /\ nInit = (IF fns.init THEN created ELSE 0)
    /\ <<"init">> \in Range(calls)
         => /\ calls[1] = <<"init">>
            /\ observer # 0
            /\ observer # last.observer

C19_Witness ==
    /\ fns.init
    /\ last.op = "ready"
    /\ calls[1] = <<"init">>
    /\ nInit = 1
    /\ created = 1

\* C20: a tracker that has left the idle state never returns to it.
C20_NeverBackToIdle == [][state # "idle" => state' # "idle"]_vars

C20_Witness ==
    /\ last.op = "pause"
    /\ last.state = "destroyed"
    /\ state = "paused"
====
